---- MODULE Spec2Model ----
(***************************************************************************)
(* Two-phase pix2pixHD training (training/training.py), its checkpoint     *)
(* resume, its TensorBoard loss logging and its learning-rate schedule,    *)
(* and the sampling script (sampling/sampling.py, pix2pixhd_sample.py).    *)
(*                                                                         *)
(* Network weights are abstracted to the number of optimizer steps that    *)
(* produced them (0 = weights_init only); a LocalEnhancer keeps the        *)
(* lineage of its embedded global generator g1 apart from its own steps.   *)
(* Rationals are pairs <<numerator, denominator>>; a denominator of 0 is   *)
(* Python's ZeroDivisionError.  A file on disk is << >> when absent and    *)
(* <<content>> when present.                                               *)
(***************************************************************************)
EXTENDS Integers, Sequences, FiniteSets, TLC

\* ------------------------------------------------------------- bounds
MaxEpochs == 2
MaxBatches == 2
MaxWriteLogsStep == 2
MaxDecayAfter == 1
MaxItems == 2
Gpus == 2
MaxDistEpochs == 1
MaxDistBatches == 1

VARIABLES
    nb,               \* len(dataloader): batches per epoch (the dataset)
    write_logs_step,  \* args.write_logs_step
    decay_after,      \* args.decay_after
    args,             \* args: epochs1, epochs2 (the same in every run) and the
                      \* current run's low_resolution_finished, resume_training
    pc,               \* position of the train_networks process
    disk,             \* files of args.saved_model_path
    models,           \* generator1, discriminator1, generator2, discriminator2
    schedulers,       \* g1, d1, g2, d2 LambdaLR schedulers
    loc,              \* locals of train()
    lastLog,          \* last pair of scalars handed to args.writer.add_scalar
    hist,             \* history of the latest run (what it has completed)
    p1out,            \* history: the generator1 weights phase 1 has returned with
    userOk,           \* history: low_resolution_finished was only ever passed
                      \* when training_status.info recorded True
    smp,              \* the sample_images process
    dist              \* the ranks of a distributed run

trainVars == <<nb, write_logs_step, decay_after, args, pc, disk, models,
               schedulers, loc, lastLog, hist, p1out, userOk>>

vars == <<trainVars, smp, dist>>

Max(a, b) == IF a >= b THEN a ELSE b

\* ------------------------------------------------- files and their keys
StatusFile == "training_status.info"
FinalModelFile == "pix2pixHD_model.pth"
path_bkp_model(stage) ==
    IF stage = "stage1" THEN "bkp_model_stage1.pth" ELSE "bkp_model_stage2.pth"
Files == {StatusFile, FinalModelFile, path_bkp_model("stage1"),
          path_bkp_model("stage2")}
Exists(f) == Len(disk[f]) = 1
Load(f) == disk[f][1]

\* ------------------------------------------------ learning-rate schedule
\* lr_lambda(epoch) as a rational; <<0, 0>> is the ZeroDivisionError.
lr_lambda(epoch, a) ==
    IF epoch < decay_after THEN <<1, 1>>
    ELSE IF a.epochs2 + 1 - decay_after = 0 THEN <<0, 0>>
    ELSE <<(a.epochs2 + 1 - decay_after) - (epoch - decay_after),
           a.epochs2 + 1 - decay_after>>

\* torch.optim.lr_scheduler.LambdaLR(optimizer, lr_lambda): the constructor
\* takes the initial step, which evaluates lr_lambda(0).
LambdaLR(a) == [last_epoch |-> 0, lr |-> lr_lambda(0, a)]
\* scheduler.step()
SchedulerStep(s, a) ==
    [last_epoch |-> s.last_epoch + 1, lr |-> lr_lambda(s.last_epoch + 1, a)]

\* ------------------------------------------------------ process memory
weights_init == 0
NoModels == [generator1 |-> weights_init, discriminator1 |-> weights_init,
             generator2 |-> [g1 |-> weights_init, g2 |-> weights_init],
             discriminator2 |-> weights_init]
NoArgs == [low_resolution_finished |-> FALSE, resume_training |-> FALSE,
           epochs1 |-> 0, epochs2 |-> 0]
NoSchedulers == [g1 |-> LambdaLR(NoArgs), d1 |-> LambdaLR(NoArgs),
                 g2 |-> LambdaLR(NoArgs), d2 |-> LambdaLR(NoArgs)]
\* loaded and nacc are history: whether train() loaded the checkpoint, and
\* the number of batches whose losses the two accumulators hold.
NoLoc == [stage |-> "", epochs |-> 0, cur_step |-> 0, epoch_run |-> 0,
          epoch |-> 0, batch |-> 0, mean_g_loss |-> 0, mean_d_loss |-> 0,
          nacc |-> 0, loaded |-> FALSE]
NoSmp == [pc |-> "idle", args |-> {}, n |-> 0, i |-> 0,
          generator |-> [g1 |-> weights_init, g2 |-> weights_init],
          discriminator |-> weights_init, applied |-> << >>, saved |-> 0,
          error |-> ""]
NoDist == << >>
\* stage1, stage2: epoch + epoch_run when train() returned (-1: it has not).
NoHist == [stage1 |-> -1, stage2 |-> -1, final |-> FALSE, error |-> ""]
NoLog == << >>

\* The outcomes of gd_loss for one batch: <<g_loss, d_loss>>.
GdLoss == {<<1, 2>>, <<2, 1>>}

\* ------------------------------------------------------------ training
TrainInit ==
    /\ nb \in 0..MaxBatches
    /\ write_logs_step \in 1..MaxWriteLogsStep
    /\ decay_after \in 0..MaxDecayAfter
    /\ args \in [low_resolution_finished : {FALSE}, resume_training : {FALSE},
                 epochs1 : 0..MaxEpochs, epochs2 : 0..MaxEpochs]
    /\ pc = "idle"
    /\ disk = [f \in Files |-> << >>]
    /\ models = NoModels
    /\ schedulers = NoSchedulers
    /\ loc = NoLoc
    /\ lastLog = NoLog
    /\ hist = NoHist
    /\ p1out = {}
    /\ userOk = TRUE
    /\ smp = NoSmp
    /\ dist = NoDist

StatusRecordsFinished ==
    Exists(StatusFile) /\ Load(StatusFile).low_resolution_finished

\* A process enters train_networks (lines 28-84), any number of times one
\* after the other: the networks are built with weights_init and the four
\* schedulers are constructed.
StartRun(lrf, resume) ==
    /\ pc = "idle"
    /\ args' = [args EXCEPT !.low_resolution_finished = lrf,
                            !.resume_training = resume]
    /\ models' = NoModels
    /\ schedulers' = [g1 |-> LambdaLR(args'), d1 |-> LambdaLR(args'),
                      g2 |-> LambdaLR(args'), d2 |-> LambdaLR(args')]
    /\ loc' = NoLoc
    /\ lastLog' = NoLog
    /\ hist' = NoHist
    /\ userOk' = (userOk /\ (lrf => StatusRecordsFinished))
    /\ pc' = "l88"
    /\ smp' = NoSmp
    /\ UNCHANGED <<nb, write_logs_step, decay_after, disk, p1out, dist>>

\* line 90: if not args.low_resolution_finished
RunPhase1_Inverted == args.low_resolution_finished
RunPhase1 == ~args.low_resolution_finished

\* line 88: torch.save({'low_resolution_finished': False}, ...); line 90.
SaveStatusFalse ==
    /\ pc = "l88"
    /\ disk' = [disk EXCEPT ![StatusFile] = <<[low_resolution_finished |-> FALSE]>>]
    /\ pc' = IF RunPhase1 THEN "enter1" ELSE "l102"
    /\ UNCHANGED <<nb, write_logs_step, decay_after, args, models, schedulers,
                   loc, lastLog, hist, p1out, userOk>>
    /\ UNCHANGED <<smp, dist>>

\* The models, schedulers and epochs handed to train() for a stage.
StageOf(p) == IF p = "enter1" THEN "stage1" ELSE "stage2"
GenOf(stage, m) == IF stage = "stage1" THEN m.generator1 ELSE m.generator2
DiscOf(stage, m) == IF stage = "stage1" THEN m.discriminator1 ELSE m.discriminator2
GSchedOf(stage, s) == IF stage = "stage1" THEN s.g1 ELSE s.g2
DSchedOf(stage, s) == IF stage = "stage1" THEN s.d1 ELSE s.d2
WithModels(stage, m, g, d) ==
    IF stage = "stage1" THEN [m EXCEPT !.generator1 = g, !.discriminator1 = d]
    ELSE [m EXCEPT !.generator2 = g, !.discriminator2 = d]
WithSchedulers(stage, s, g, d) ==
    IF stage = "stage1" THEN [s EXCEPT !.g1 = g, !.d1 = d]
    ELSE [s EXCEPT !.g2 = g, !.d2 = d]

\* line 179: the condition under which train() loads the checkpoint.
ShouldLoad_AnyCheckpoint(stage) == Exists(path_bkp_model(stage))
ShouldLoad(stage) == args.resume_training /\ Exists(path_bkp_model(stage))

\* lines 172-175: the running variables of train().
Running(stage, epochs) == [NoLoc EXCEPT !.stage = stage, !.epochs = epochs]
\* lines 180-182: the running variables recovered from checkpoint cp.
Recovered_EpochOnly(stage, epochs, cp) ==
    [Running(stage, epochs) EXCEPT !.epoch_run = cp.epoch, !.loaded = TRUE]
Recovered(stage, epochs, cp) ==
    [Running(stage, epochs) EXCEPT !.epoch_run = cp.epoch,
                                   !.cur_step = cp.cur_step,
                                   !.loaded = TRUE]

\* train(), lines 150-191: the running variables, and the recovery from
\* the checkpoint.
TrainEnter ==
    /\ pc \in {"enter1", "enter2"}
    /\ LET stage == StageOf(pc)
           epochs == IF stage = "stage1" THEN args.epochs1 ELSE args.epochs2
           cp == Load(path_bkp_model(stage))
       IN IF ShouldLoad(stage)
          THEN /\ loc' = Recovered(stage, epochs, cp)
               /\ models' = WithModels(stage, models, cp.generator_state_dict,
                                       cp.discriminator_state_dict)
               /\ schedulers' = WithSchedulers(stage, schedulers,
                                               cp.g_scheduler_state_dict,
                                               cp.d_scheduler_state_dict)
          ELSE /\ loc' = Running(stage, epochs)
               /\ UNCHANGED <<models, schedulers>>
    /\ pc' = "loop"
    /\ UNCHANGED <<nb, write_logs_step, decay_after, args, disk, lastLog, hist, p1out, userOk>>
    /\ UNCHANGED <<smp, dist>>

\* line 193: for epoch in range(epochs - epoch_run)
InEpochLoop == loc.epoch < loc.epochs - loc.epoch_run

\* One optimizer step of the stage's generator and discriminator.
Trained(stage, m) ==
    IF stage = "stage1"
    THEN [m EXCEPT !.generator1 = @ + 1, !.discriminator1 = @ + 1]
    ELSE [m EXCEPT !.generator2.g2 = @ + 1, !.discriminator2 = @ + 1]

\* line 248: the condition under which the losses go to TensorBoard.
ShouldWriteLogs(step) == step % write_logs_step = 0 /\ step > 0

\* train(), lines 197-255: one batch.  The image dump of lines 233-234
\* changes nothing of this state; an exception in it ends the process as
\* Interrupt does.
Batch(gd) ==
    /\ pc = "loop"
    /\ InEpochLoop
    /\ loc.batch < nb
    /\ models' = Trained(loc.stage, models)
    /\ LET g == loc.mean_g_loss + gd[1]
           d == loc.mean_d_loss + gd[2]
           n == loc.nacc + 1
       IN IF ShouldWriteLogs(loc.cur_step)
          THEN /\ lastLog' = <<[stage |-> loc.stage, step |-> loc.cur_step,
                                g |-> <<g, write_logs_step>>,
                                d |-> <<d, write_logs_step>>, batches |-> n]>>
               /\ loc' = [loc EXCEPT !.mean_g_loss = 0, !.mean_d_loss = 0,
                                     !.nacc = 0, !.cur_step = @ + 1,
                                     !.batch = @ + 1]
          ELSE /\ lastLog' = lastLog
               /\ loc' = [loc EXCEPT !.mean_g_loss = g, !.mean_d_loss = d,
                                     !.nacc = n, !.cur_step = @ + 1,
                                     !.batch = @ + 1]
    /\ UNCHANGED <<nb, write_logs_step, decay_after, args, pc, disk,
                   schedulers, hist, p1out, userOk>>
    /\ UNCHANGED <<smp, dist>>

\* The process ends: its memory is gone, the disk stays.
Ended(err) ==
    /\ pc' = "idle"
    /\ models' = NoModels
    /\ schedulers' = NoSchedulers
    /\ loc' = NoLoc
    /\ lastLog' = NoLog
    /\ hist' = [hist EXCEPT !.error = err]

\* lines 262-279: the checkpoint of the stage.
Checkpoint(l, m, s) ==
    [epoch |-> l.epoch + l.epoch_run + 1,
     cur_step |-> l.cur_step,
     generator_state_dict |-> GenOf(l.stage, m),
     discriminator_state_dict |-> DiscOf(l.stage, m),
     g_scheduler_state_dict |-> GSchedOf(l.stage, s),
     d_scheduler_state_dict |-> DSchedOf(l.stage, s)]

\* train(), lines 259-279: the end of an epoch.  A ZeroDivisionError of
\* lr_lambda ends the process before the checkpoint is written.
EpochEnd ==
    /\ pc = "loop"
    /\ InEpochLoop
    /\ loc.batch = nb
    /\ LET g == SchedulerStep(GSchedOf(loc.stage, schedulers), args)
           d == SchedulerStep(DSchedOf(loc.stage, schedulers), args)
           s == WithSchedulers(loc.stage, schedulers, g, d)
       IN IF g.lr[2] = 0
          THEN /\ Ended("ZeroDivisionError")
               /\ UNCHANGED disk
          ELSE /\ schedulers' = s
               /\ disk' = [disk EXCEPT ![path_bkp_model(loc.stage)] =
                                          <<Checkpoint(loc, models, s)>>]
               /\ loc' = [loc EXCEPT !.epoch = @ + 1, !.batch = 0]
               /\ UNCHANGED <<pc, models, lastLog, hist>>
    /\ UNCHANGED <<nb, write_logs_step, decay_after, args, p1out, userOk>>
    /\ UNCHANGED <<smp, dist>>

\* train() returns: to line 102 after stage1, to line 138 after stage2.
TrainReturn ==
    /\ pc = "loop"
    /\ ~InEpochLoop
    /\ IF loc.stage = "stage1"
       THEN /\ pc' = "l102"
            /\ hist' = [hist EXCEPT !.stage1 = loc.epoch + loc.epoch_run]
            /\ p1out' = p1out \cup {models.generator1}
       ELSE /\ pc' = "l138"
            /\ hist' = [hist EXCEPT !.stage2 = loc.epoch + loc.epoch_run]
            /\ p1out' = p1out
    /\ UNCHANGED <<nb, write_logs_step, decay_after, args, disk, models,
                   schedulers, loc, lastLog, userOk>>
    /\ UNCHANGED <<smp, dist>>

\* line 102: torch.save({'low_resolution_finished': True}, ...)
SaveStatusTrue ==
    /\ pc = "l102"
    /\ disk' = [disk EXCEPT ![StatusFile] = <<[low_resolution_finished |-> TRUE]>>]
    /\ pc' = "l107"
    /\ UNCHANGED <<nb, write_logs_step, decay_after, args, models, schedulers,
                   loc, lastLog, hist, p1out, userOk>>
    /\ UNCHANGED <<smp, dist>>

\* line 107: generator2.g1 = generator1.g1
UpdateGlobalGenerator ==
    /\ pc = "l107"
    /\ models' = [models EXCEPT !.generator2.g1 = models.generator1]
    /\ pc' = "enter2"
    /\ UNCHANGED <<nb, write_logs_step, decay_after, args, disk, schedulers,
                   loc, lastLog, hist, p1out, userOk>>
    /\ UNCHANGED <<smp, dist>>

\* lines 138-143: the final model file.
FinalModel_EncoderKey(m) == [encoder_state_dict |-> m.generator2,
                             discriminator_state_dict |-> m.discriminator2]
FinalModel(m) == [generator_state_dict |-> m.generator2,
                  discriminator_state_dict |-> m.discriminator2]

SaveFinal ==
    /\ pc = "l138"
    /\ disk' = [disk EXCEPT ![FinalModelFile] = <<FinalModel(models)>>]
    /\ hist' = [hist EXCEPT !.final = TRUE]
    /\ pc' = "done"
    /\ UNCHANGED <<nb, write_logs_step, decay_after, args, models, schedulers,
                   loc, lastLog, p1out, userOk>>
    /\ UNCHANGED <<smp, dist>>

\* line 146: return print("done training")
Return ==
    /\ pc = "done"
    /\ Ended("")
    /\ UNCHANGED <<nb, write_logs_step, decay_after, args, disk, p1out,
                   userOk>>
    /\ UNCHANGED <<smp, dist>>

\* The process is killed between two steps (a file is written whole or not
\* at all).
Interrupt ==
    /\ pc \notin {"idle", "done"}
    /\ Ended("interrupted")
    /\ UNCHANGED <<nb, write_logs_step, decay_after, args, disk, p1out,
                   userOk>>
    /\ UNCHANGED <<smp, dist>>

TrainNext ==
    \/ \E lrf \in BOOLEAN, resume \in BOOLEAN : StartRun(lrf, resume)
    \/ SaveStatusFalse
    \/ TrainEnter
    \/ \E gd \in GdLoss : Batch(gd)
    \/ EpochEnd
    \/ TrainReturn
    \/ SaveStatusTrue
    \/ UpdateGlobalGenerator
    \/ SaveFinal
    \/ Return
    \/ Interrupt

\* ------------------------------------------------------------ sampling
\* pix2pixhd_sample.py, parse_args: the attributes of args.
ParseArgs == {"n_classes", "n_features", "input_path_dir", "input_img_dir",
              "input_label_dir", "input_inst_dir", "saved_model_path",
              "experiment_name", "resume_training", "target_width",
              "output_path_dir", "output_images_path", "warnings"}
\* pix2pixhd_sample.py, main, line 58: the file args.saved_model_path names.
SampleModelFile == "pix2pixHD_model.pth"
\* sample_images, lines 28-58: the attributes of args it reads.
SampleArgsRead == {"n_classes", "n_features", "input_path_dir", "input_img_dir",
                   "input_inst_dir", "input_label_dir", "target_width",
                   "output_path_dir", "output_images_path", "gpu"}
\* sample_images, lines 63-64: the keys of the loaded file it reads.
SampleKeysRead == {"generator_state_dict", "discriminator_state_dict"}
\* save_tensor_images(image_tensor_fake, image_tensor_real, epoch, path)
SaveTensorImagesParams == 4
\* sample_images, line 74: save_tensor_images(img_o_fake.to(...), path)
SampleSaveCallArgs == 2

SampleEnded(err) ==
    smp' = [smp EXCEPT !.pc = IF err = "" THEN "done" ELSE "crashed",
                       !.error = err]

\* main() of pix2pixhd_sample.py calls sample_images(args) on a dataset of
\* n items, once a training run has returned; extra are attributes a
\* caller has added to the parsed args (main adds none).
SampleStart(extra, n) ==
    /\ pc = "idle"
    /\ hist.final
    /\ smp.pc \in {"idle", "done", "crashed"}
    /\ smp' = [NoSmp EXCEPT !.pc = "l28", !.args = ParseArgs \cup extra, !.n = n]
    /\ UNCHANGED <<trainVars, dist>>

\* sample_images, lines 28-58: the dataloader and the networks are built.
SampleSetup ==
    /\ smp.pc = "l28"
    /\ IF SampleArgsRead \subseteq smp.args
       THEN smp' = [smp EXCEPT !.pc = "l61"]
       ELSE SampleEnded("AttributeError")
    /\ UNCHANGED <<trainVars, dist>>

\* sample_images, lines 60-64: the saved model is loaded.
SampleLoad ==
    /\ smp.pc = "l61"
    /\ IF ~Exists(SampleModelFile) THEN SampleEnded("FileNotFoundError")
       ELSE IF ~(SampleKeysRead \subseteq DOMAIN Load(SampleModelFile))
       THEN SampleEnded("KeyError")
       ELSE smp' = [smp EXCEPT
                      !.pc = "l66",
                      !.generator = Load(SampleModelFile).generator_state_dict,
                      !.discriminator = Load(SampleModelFile).discriminator_state_dict]
    /\ UNCHANGED <<trainVars, dist>>

\* sample_images, lines 66-74: the generator is applied to the next item
\* and save_tensor_images is called on its output.
SampleItem ==
    /\ smp.pc = "l66"
    /\ smp.i < smp.n
    /\ IF SampleSaveCallArgs = SaveTensorImagesParams
       THEN smp' = [smp EXCEPT !.applied = Append(@, smp.i), !.saved = @ + 1,
                               !.i = @ + 1]
       ELSE smp' = [smp EXCEPT !.applied = Append(@, smp.i),
                               !.pc = "crashed", !.error = "TypeError"]
    /\ UNCHANGED <<trainVars, dist>>

\* sample_images, line 76: return print("done training")
SampleReturn ==
    /\ smp.pc = "l66"
    /\ smp.i = smp.n
    /\ SampleEnded("")
    /\ UNCHANGED <<trainVars, dist>>

SampleNext ==
    \/ \E extra \in {{}, {"gpu"}}, n \in 0..MaxItems : SampleStart(extra, n)
    \/ SampleSetup
    \/ SampleLoad
    \/ SampleItem
    \/ SampleReturn

\* ------------------------------------------ train() on its own inputs
\* A checkpoint an earlier run has left: of e epochs of k batches each.
LeftCheckpoint(stage, e, k) ==
    [epoch |-> e,
     cur_step |-> e * k,
     generator_state_dict |->
         IF stage = "stage1" THEN e * k ELSE [g1 |-> weights_init, g2 |-> e * k],
     discriminator_state_dict |-> e * k,
     g_scheduler_state_dict |-> [last_epoch |-> e, lr |-> <<1, 1>>],
     d_scheduler_state_dict |-> [last_epoch |-> e, lr |-> <<1, 1>>]]

\* train() is entered for a stage with any args, on a disk where the
\* stage's checkpoint is absent or was left by a run with other args.
TrainOnlyInit ==
    /\ nb \in 0..MaxBatches
    /\ write_logs_step \in 1..MaxWriteLogsStep
    /\ decay_after \in 0..MaxDecayAfter
    /\ args \in [low_resolution_finished : {FALSE}, resume_training : BOOLEAN,
                 epochs1 : 0..MaxEpochs, epochs2 : 0..MaxEpochs]
    /\ pc \in {"enter1", "enter2"}
    /\ \E cp \in {<< >>} \cup {<<LeftCheckpoint(StageOf(pc), e, k)>> :
                                   e \in 1..(MaxEpochs + 1), k \in 0..MaxBatches} :
          disk = [f \in Files |-> IF f = path_bkp_model(StageOf(pc)) THEN cp
                                  ELSE << >>]
    /\ models = NoModels
    /\ schedulers = [g1 |-> LambdaLR(args), d1 |-> LambdaLR(args),
                     g2 |-> LambdaLR(args), d2 |-> LambdaLR(args)]
    /\ loc = NoLoc
    /\ lastLog = NoLog
    /\ hist = NoHist
    /\ p1out = {}
    /\ userOk = TRUE
    /\ smp = NoSmp
    /\ dist = NoDist

TrainOnlyNext ==
    \/ TrainEnter
    \/ \E gd \in GdLoss : Batch(gd)
    \/ EpochEnd
    \/ TrainReturn

\* ----------------------------------------------------- distributed run
\* One train_networks process per gpu of node nr = 0, all with the same
\* args and the same args.saved_model_path.  Of each process the model
\* keeps what orders its file writes: the collective calls (a process
\* leaves one only when every process has arrived at it) and torch.save,
\* which opens the file, writes it and closes it.
Procs == 0..(Gpus - 1)
\* line 39: rank = args.nr * args.gpus + gpu
Rank(nr, gpu) == nr * Gpus + gpu

Sync(call) == [op |-> "sync", what |-> call]
Save(file) == [op |-> "save", what |-> file]

RECURSIVE Repeat(_, _)
Repeat(ops, n) == IF n <= 0 THEN << >> ELSE ops \o Repeat(ops, n - 1)

\* train(), distributed: the DistributedDataParallel wrappers (lines
\* 157-160), per batch the gradient all-reduce of backward() (lines
\* 226, 230), per epoch the checkpoint (lines 263-279).
TrainOps(stage, epochs, batches) ==
    <<Sync("DistributedDataParallel")>>
    \o Repeat(Repeat(<<Sync("backward")>>, batches)
              \o <<Save(path_bkp_model(stage))>>, epochs)

\* train_networks, lines 39-143, as the sequence of these calls.
Program(d) ==
    <<Sync("init_process_group"), Save(StatusFile)>>
    \o (IF ~d.low_resolution_finished THEN TrainOps("stage1", d.epochs1, d.nb)
        ELSE << >>)
    \o <<Save(StatusFile)>>
    \o TrainOps("stage2", d.epochs2, d.nb)
    \o <<Save(FinalModelFile)>>

\* The collective calls process p has arrived at.
Arrived(d, p) ==
    LET prog == Program(d)
        before == Cardinality({k \in 1..(d.proc[p].ip - 1) : prog[k].op = "sync"})
    IN before + (IF d.proc[p].st = "waiting" THEN 1 ELSE 0)

AtOp(d, p, op) ==
    /\ d.proc[p].ip <= Len(Program(d))
    /\ Program(d)[d.proc[p].ip].op = op

DistInit ==
    /\ \E lrf \in BOOLEAN, e1 \in 0..MaxDistEpochs, e2 \in 0..MaxDistEpochs,
          b \in 0..MaxDistBatches :
          dist = [low_resolution_finished |-> lrf, epochs1 |-> e1,
                  epochs2 |-> e2, nb |-> b,
                  proc |-> [p \in Procs |-> [ip |-> 1, st |-> "ready"]],
                  writers |-> [f \in Files |-> {}]]
    /\ nb = 0
    /\ write_logs_step = 1
    /\ decay_after = 0
    /\ args = NoArgs
    /\ pc = "idle"
    /\ disk = [f \in Files |-> << >>]
    /\ models = NoModels
    /\ schedulers = NoSchedulers
    /\ loc = NoLoc
    /\ lastLog = NoLog
    /\ hist = NoHist
    /\ p1out = {}
    /\ userOk = TRUE
    /\ smp = NoSmp

\* Process p calls a collective.
DistArrive(p) ==
    /\ AtOp(dist, p, "sync")
    /\ dist.proc[p].st = "ready"
    /\ dist' = [dist EXCEPT !.proc[p].st = "waiting"]
    /\ UNCHANGED <<trainVars, smp>>

\* The collective returns in process p: every process has arrived at it.
DistLeave(p) ==
    /\ AtOp(dist, p, "sync")
    /\ dist.proc[p].st = "waiting"
    /\ \A q \in Procs : Arrived(dist, q) >= Arrived(dist, p)
    /\ dist' = [dist EXCEPT !.proc[p] = [ip |-> @.ip + 1, st |-> "ready"]]
    /\ UNCHANGED <<trainVars, smp>>

\* torch.save in process p opens its file for writing.
DistOpen(p) ==
    /\ AtOp(dist, p, "save")
    /\ dist.proc[p].st = "ready"
    /\ dist' = [dist EXCEPT
                   !.proc[p].st = "writing",
                   !.writers[Program(dist)[dist.proc[p].ip].what] =
                       @ \cup {Rank(0, p)}]
    /\ UNCHANGED <<trainVars, smp>>

\* torch.save in process p has written the file and closes it.
DistClose(p) ==
    /\ AtOp(dist, p, "save")
    /\ dist.proc[p].st = "writing"
    /\ dist' = [dist EXCEPT
                   !.proc[p] = [ip |-> @.ip + 1, st |-> "ready"],
                   !.writers[Program(dist)[dist.proc[p].ip].what] =
                       @ \ {Rank(0, p)}]
    /\ UNCHANGED <<trainVars, smp>>

DistNext ==
    \E p \in Procs : \/ DistArrive(p)
                     \/ DistLeave(p)
                     \/ DistOpen(p)
                     \/ DistClose(p)

\* ------------------------------------------------------ specifications
Init == TrainInit
Next == TrainNext \/ SampleNext
Spec == Init /\ [][Next]_vars

\* train() alone, from every input.
SpecTrain == TrainOnlyInit /\ [][TrainOnlyNext]_vars

\* The processes of a distributed run.
SpecDist == DistInit /\ [][DistNext]_vars

\* -------------------------------------------------------------- claims
InPhase2 ==
    \/ pc \in {"enter2", "l138", "done"}
    \/ pc = "loop" /\ loc.stage = "stage2"

\* C1: phase 2 is entered only when phase 1 has run all of its epochs1
\* epochs in this run or was skipped because low_resolution_finished is
\* set, and training_status.info then records low_resolution_finished =
\* True (so before the first phase-2 batch).
C1_Phase2AfterPhase1 ==
    InPhase2 =>
        /\ \/ hist.stage1 >= args.epochs1
           \/ hist.stage1 = -1 /\ args.low_resolution_finished
        /\ Exists(StatusFile)
        /\ Load(StatusFile).low_resolution_finished = TRUE

\* A phase-2 batch has been processed in a run whose phase 1 ran an epoch.
C1_Witness ==
    /\ pc = "loop"
    /\ loc.stage = "stage2"
    /\ loc.cur_step > 0
    /\ hist.stage1 >= 1
    /\ ~args.low_resolution_finished

\* C2 (as claimed): when phase-2 training starts, generator2.g1 holds
\* weights that phase-1 training has returned with, in every run of a user
\* who passes low_resolution_finished only once training_status.info
\* records it.
C2_GlobalGeneratorIsTrained ==
    (userOk /\ pc = "loop" /\ loc.stage = "stage2") =>
        models.generator2.g1 \in p1out

\* C3: train() loads the checkpoint iff resume_training is set and the
\* stage's checkpoint file exists; it then starts from the checkpoint's
\* epoch and cur_step and runs max(0, epochs - epoch_run) epochs;
\* otherwise it starts from epoch 0 and cur_step 0 and runs epochs epochs.
C3_ResumeFromCheckpoint ==
    /\ (pc = "loop" /\ loc.epoch = 0 /\ loc.batch = 0) =>
          LET file == path_bkp_model(loc.stage)
          IN /\ loc.loaded <=> (args.resume_training /\ Len(disk[file]) = 1)
             /\ loc.loaded => /\ loc.epoch_run = disk[file][1].epoch
                              /\ loc.cur_step = disk[file][1].cur_step
             /\ ~loc.loaded => loc.epoch_run = 0 /\ loc.cur_step = 0
             /\ loc.epochs = IF loc.stage = "stage1" THEN args.epochs1
                             ELSE args.epochs2
    /\ pc \in {"l102", "l138"} =>
          /\ loc.loaded => loc.epoch = Max(0, loc.epochs - loc.epoch_run)
          /\ ~loc.loaded => loc.epoch_run = 0 /\ loc.epoch = loc.epochs

\* train() has returned after it resumed from a checkpoint and ran on.
C3_Witness ==
    /\ pc \in {"l102", "l138"}
    /\ loc.loaded
    /\ loc.epoch_run >= 1
    /\ loc.epoch >= 1

\* C4: the final model file is written by a run only once its phase 2 has
\* returned with all epochs2 epochs done, it holds generator2 and
\* discriminator2 under 'generator_state_dict' and
\* 'discriminator_state_dict', sample_images finds that file and those
\* keys, and an interrupted run has written no final model file.
C4_FinalModelFile ==
    /\ hist.final => /\ hist.stage2 >= args.epochs2
                     /\ Len(disk["pix2pixHD_model.pth"]) = 1
                     /\ hist.error = ""
    /\ pc = "done" =>
          disk["pix2pixHD_model.pth"] =
              <<[generator_state_dict |-> models.generator2,
                 discriminator_state_dict |-> models.discriminator2]>>
    /\ Len(disk["pix2pixHD_model.pth"]) = 1 =>
          disk["pix2pixHD_model.pth"][1].generator_state_dict.g2
              = args.epochs2 * nb
    /\ smp.error \notin {"FileNotFoundError", "KeyError"}
    /\ (smp.pc = "l66" \/ smp.error = "TypeError") =>
          /\ smp.generator = disk["pix2pixHD_model.pth"][1].generator_state_dict
          /\ smp.discriminator =
                 disk["pix2pixHD_model.pth"][1].discriminator_state_dict

\* sample_images has loaded the final model of a training run whose
\* phase 2 trained.
C4_Witness ==
    /\ hist.final
    /\ hist.stage2 >= 1
    /\ smp.pc = "l66"
    /\ smp.generator.g2 >= 1

\* C5 (as claimed): sample_images does not abort, and when it returns it
\* has applied the generator once to each item, in dataset order, and
\* saved one image per item.
C5_SamplingCompletes ==
    /\ smp.pc # "crashed"
    /\ smp.pc = "done" => /\ smp.applied = [k \in 1..smp.n |-> k - 1]
                          /\ smp.saved = smp.n

\* What holds of a stage's checkpoint file when it exists.
CheckpointOk(stage, epochs) ==
    LET file == path_bkp_model(stage)
    IN Len(disk[file]) = 1 =>
          /\ disk[file][1].cur_step = disk[file][1].epoch * nb
          /\ disk[file][1].epoch <= epochs
          /\ disk[file][1].g_scheduler_state_dict.last_epoch = disk[file][1].epoch
          /\ disk[file][1].d_scheduler_state_dict.last_epoch = disk[file][1].epoch

\* What holds of a stage's checkpoint file once its train() has returned.
LastCheckpointOk(stage, epochs, returned) ==
    LET file == path_bkp_model(stage)
    IN (returned /\ epochs > 0) =>
          /\ Len(disk[file]) = 1
          /\ disk[file][1].epoch = epochs
          /\ disk[file][1].cur_step = epochs * nb
          /\ disk[file][1].g_scheduler_state_dict.last_epoch = epochs

\* C6: every checkpoint on disk has cur_step = epoch * (batches per
\* epoch), epoch <= epochs and a scheduler step count of epoch; once a
\* stage's train() has returned, however many interrupted runs came
\* before, the stage's checkpoint is the one of an uninterrupted run:
\* epoch = epochs, cur_step = epochs * (batches per epoch).
C6_ResumedCheckpoints ==
    /\ CheckpointOk("stage1", args.epochs1)
    /\ CheckpointOk("stage2", args.epochs2)
    /\ LastCheckpointOk("stage1", args.epochs1, hist.stage1 >= 0)
    /\ LastCheckpointOk("stage2", args.epochs2, hist.stage2 >= 0)

\* Stage 1 has returned in a run that resumed from the checkpoint of
\* epoch 1 of 2, which an interrupted run had left.
C6_Witness ==
    /\ pc = "l102"
    /\ args.epochs1 = 2
    /\ nb >= 1
    /\ loc.loaded
    /\ loc.epoch_run = 1
    /\ hist.stage1 = 2

\* C7 (as claimed): lr_lambda is 1 before decay_after, and it is defined
\* and strictly positive at every epoch index the schedulers of both
\* stages evaluate it at.
C7_LrLambdaPositive ==
    /\ hist.error # "ZeroDivisionError"
    /\ \A k \in {"g1", "d1", "g2", "d2"} :
          /\ schedulers[k].lr[2] # 0
          /\ schedulers[k].lr[1] * schedulers[k].lr[2] > 0
          /\ schedulers[k].last_epoch < decay_after => schedulers[k].lr = <<1, 1>>

\* C8 (as claimed): a value written to TensorBoard is the mean of the
\* losses of exactly write_logs_step batches, it is written at a positive
\* multiple of write_logs_step, and the accumulators restart from 0 after
\* the write.
C8_LoggedMean ==
    lastLog # NoLog =>
        /\ lastLog[1].batches = write_logs_step
        /\ lastLog[1].step > 0
        /\ lastLog[1].step % write_logs_step = 0
        /\ (pc = "loop" /\ loc.stage = lastLog[1].stage) =>
              loc.nacc = loc.cur_step - (lastLog[1].step + 1)

\* C9 (as claimed): at most one process at a time is writing a given file
\* of args.saved_model_path.
C9_SingleWriter ==
    dist # NoDist => \A f \in Files : Cardinality(dist.writers[f]) <= 1

====
